---- MODULE Spec2Model ----
(***************************************************************************)
(* A model of granola_sync.py: the classifier (match_client), the filename *)
(* derivation (make_filename), the completion filter (is_meeting_done),    *)
(* the tracking ledger (load_tracking / save_tracking) and the per-        *)
(* transcript state machine of sync_transcripts.                           *)
(*                                                                         *)
(* Text (titles, keywords, filenames) is a sequence of one-character       *)
(* strings, so that lower-casing, substring search and sanitising are      *)
(* computed character by character as the Python code computes them.       *)
(*                                                                         *)
(* File contents are not modelled: the output directories are a set of     *)
(* paths.  Python's None is "None" for a folder name and the empty         *)
(* sequence for a title or a filename (both are falsy in the code's        *)
(* tests, and no written title or filename is empty).                      *)
(***************************************************************************)
EXTENDS Integers, Sequences, FiniteSets, TLC

(***************************************************************************)
(* Bounds of the model.                                                    *)
(***************************************************************************)
\* sync runs started in one behaviour
MaxRuns == 3
\* changes the note-taking application makes to its cache in one behaviour
MaxEdits == 2
\* injected I/O faults (a failing load, write or delete) in one behaviour
MaxFaults == 1
\* length of the generated titles the classifier is tried on
MaxTitleLen == 3

(***************************************************************************)
(* Characters.                                                             *)
(***************************************************************************)
UpperChars ==
  << "A", "B", "C", "D", "E", "F", "G", "H", "I", "J", "K", "L", "M",
     "N", "O", "P", "Q", "R", "S", "T", "U", "V", "W", "X", "Y", "Z" >>

LowerChars ==
  << "a", "b", "c", "d", "e", "f", "g", "h", "i", "j", "k", "l", "m",
     "n", "o", "p", "q", "r", "s", "t", "u", "v", "w", "x", "y", "z" >>

DigitChars == { "0", "1", "2", "3", "4", "5", "6", "7", "8", "9" }

SpaceChars == { " ", "\t", "\n" }

Range(s) == { s[i] : i \in DOMAIN s }

\* str.lower() on one character
LowerChar(c) ==
  IF \E i \in DOMAIN UpperChars : UpperChars[i] = c
  THEN LowerChars[CHOOSE i \in DOMAIN UpperChars : UpperChars[i] = c]
  ELSE c

\* str.lower()
Lower(s) == [ i \in DOMAIN s |-> LowerChar(s[i]) ]

\* the regular expression class \w
IsWordChar(c) ==
  c \in Range(UpperChars) \cup Range(LowerChars) \cup DigitChars \cup { "_" }

\* kw in text
Contains(kw, text) ==
  \E i \in 1 .. (Len(text) - Len(kw) + 1) :
    SubSeq(text, i, i + Len(kw) - 1) = kw

(***************************************************************************)
(* Configuration.                                                          *)
(***************************************************************************)
None == "None"

\* CLIENT_ROUTES, in insertion order; each entry's keywords in tuple order
CLIENT_ROUTES ==
  << [ keywords |-> << << "a", "c", "m", "e" >>,
                       << "a", "c", "m", "e", " ", "c", "o", "r", "p" >>,
                       << "j", "a", "n", "e" >> >>,
       folder   |-> "Acme-Corp" ],
     [ keywords |-> << << "i", "n", "t", "e", "r", "n", "a", "l" >>,
                       << "s", "t", "a", "n", "d", "u", "p" >>,
                       << "r", "e", "t", "r", "o" >> >>,
       folder   |-> "Internal" ] >>

\* the routing table of the specification's precedence example
PrecedenceRoutes ==
  << [ keywords |-> << << "a" >> >>, folder |-> "F1" ],
     [ keywords |-> << << "a" >>, << "b" >> >>, folder |-> "F2" ] >>

(***************************************************************************)
(* match_client.                                                           *)
(***************************************************************************)
\* search_text: the lower-cased title, plus " " and the lower-cased people
\* title when there is one
SearchText(title, people) ==
  IF people # << >>
  THEN Lower(title) \o << " " >> \o Lower(people)
  ELSE Lower(title)

\* for kw in keywords: if kw in search_text
AnyKeyword(keywords, text) ==
  \E k \in DOMAIN keywords : Contains(keywords[k], text)

\* a mutant of ScanRoutes: the last matching entry wins
ScanRoutesLast(routes, text, i) ==
  LET hits == { j \in i .. Len(routes) : AnyKeyword(routes[j].keywords, text) }
  IN  IF hits = {} THEN None
      ELSE routes[CHOOSE j \in hits : \A k \in hits : k <= j].folder

\* the loop over CLIENT_ROUTES.items(), from entry i on
RECURSIVE ScanRoutes(_, _, _)
ScanRoutes(routes, text, i) ==
  IF i > Len(routes) THEN None
  ELSE IF AnyKeyword(routes[i].keywords, text)
       THEN routes[i].folder
       ELSE ScanRoutes(routes, text, i + 1)

MatchClientIn(routes, title, people) ==
  ScanRoutes(routes, SearchText(title, people), 1)

match_client(title, people) == MatchClientIn(CLIENT_ROUTES, title, people)

(***************************************************************************)
(* make_filename and get_date_prefix.                                      *)
(***************************************************************************)
\* the title is cut to this many characters
TitleCut == 60

\* the date used when a document has no start time: datetime.now()
Today == "2024-03-02"

\* re.sub(r'[^\w\s-]', '', title) keeps these characters
KeepChar(c) == IsWordChar(c) \/ c \in SpaceChars \/ c = "-"

Take(s, n) == SubSeq(s, 1, IF Len(s) < n THEN Len(s) ELSE n)

RECURSIVE StripLeft(_)
StripLeft(s) ==
  IF s # << >> /\ Head(s) \in SpaceChars THEN StripLeft(Tail(s)) ELSE s

RECURSIVE StripRight(_)
StripRight(s) ==
  IF s # << >> /\ s[Len(s)] \in SpaceChars
  THEN StripRight(SubSeq(s, 1, Len(s) - 1))
  ELSE s

\* str.strip()
Strip(s) == StripRight(StripLeft(s))

\* str.replace(' ', '-')
ReplaceSpaces(s) == [ i \in DOMAIN s |-> IF s[i] = " " THEN "-" ELSE s[i] ]

\* re.sub(r'-+', '-', s)
RECURSIVE CollapseHyphens(_)
CollapseHyphens(s) ==
  IF Len(s) <= 1 THEN s
  ELSE IF s[1] = "-" /\ s[2] = "-"
       THEN CollapseHyphens(Tail(s))
       ELSE << s[1] >> \o CollapseHyphens(Tail(s))

SafeTitle(title) ==
  CollapseHyphens(ReplaceSpaces(Strip(Take(SelectSeq(title, KeepChar), TitleCut))))

\* f"{date_str}-{safe_title}.md": the date prefix is one element of the name
make_filename(date_str, title) ==
  << date_str, "-" >> \o SafeTitle(title) \o << ".md" >>

\* a document's start_time is modelled by its first ten characters ("" when
\* the document has none, or one shorter than that)
get_date_prefix(doc) == IF doc.start # "" THEN doc.start ELSE Today

(***************************************************************************)
(* The cache: transcripts and documents.                                   *)
(***************************************************************************)
DocIds == { 1, 2 }

\* the order of transcripts.items()
DocOrder == << 1, 2 >>

\* is_meeting_done rejects a transcript with fewer words than this
MinWords == 50

\* One transcript id of the cache: whether transcripts holds the id, the
\* number of its segments, the words in them, and the document's fields
\* (meeting_end_count 0: absent or 0; title << >>: absent or empty; people
\* << >>: no people title).
Doc(title, people, words, ended) ==
  [ present |-> TRUE, segments |-> IF words = 0 THEN 0 ELSE 2, words |-> words,
    meeting_end_count |-> ended, title |-> title, people |-> people,
    start |-> "2024-03-01" ]

AbsentDoc ==
  [ present |-> FALSE, segments |-> 0, words |-> 0, meeting_end_count |-> 0,
    title |-> << >>, people |-> << >>, start |-> "" ]

TAcme == << "A", "c", "m", "e" >>
TAcmeBang == << "A", "c", "!", "m", "e" >>
TWeekly == << "W", "e", "e", "k", "l", "y" >>
TStandup == << "S", "t", "a", "n", "d", "u", "p" >>
TJane == << "J", "a", "n", "e" >>

\* the documents the cache may hold for an id
DocPool ==
  { AbsentDoc,
    Doc(TAcme, << >>, 120, 2),
    Doc(TAcmeBang, << >>, 120, 1),
    Doc(TWeekly, << >>, 50, 1),
    Doc(TWeekly, TJane, 50, 1),
    Doc(TStandup, << >>, 120, 1),
    Doc(TAcme, << >>, 49, 1) }

\* the mutant of is_meeting_done that forgets the word count
IsMeetingDoneAnyLength(doc) ==
  /\ doc.meeting_end_count >= 1
  /\ doc.title # << >>

is_meeting_done(doc) ==
  /\ doc.meeting_end_count >= 1
  /\ doc.title # << >>
  /\ doc.words >= MinWords

\* the transcripts the loop does not skip: the id is in transcripts, its
\* entries are not empty, and the meeting is done
Eligible(doc) == doc.present /\ doc.segments > 0 /\ is_meeting_done(doc)

(***************************************************************************)
(* The output directories and the tracking ledger.                         *)
(***************************************************************************)
INBOX_DIR == << "inbox" >>

\* os.path.join(CLIENTS_DIR, client_folder, "call-notes")
get_client_call_notes_dir(client_folder) ==
  << "clients", client_folder, "call-notes" >>

\* os.path.join(dir, filename)
Path(dir, filename) == << dir, filename >>

\* the entry load_tracking makes for an id of a legacy list; it has no
\* client and no title key
StubEntry ==
  [ synced_at |-> << "unknown" >>, routed |-> FALSE, client |-> None,
    file |-> << >>, title |-> << >> ]

EmptyMap == [ d \in {} |-> StubEntry ]

\* the ledger file: absent, a legacy array of ids, or an object of entries
NoLedger == [ kind |-> "absent", ids |-> << >>, entries |-> EmptyMap ]

LegacyLedger(ids) == [ kind |-> "list", ids |-> ids, entries |-> EmptyMap ]

LegacyLists == { << 1 >>, << 1, 2 >> }

\* the ids a ledger file holds
LedgerIds(ledger) ==
  IF ledger.kind = "list" THEN Range(ledger.ids) ELSE DOMAIN ledger.entries

load_tracking(ledger) ==
  CASE ledger.kind = "absent" -> EmptyMap
    [] ledger.kind = "list"   -> [ d \in Range(ledger.ids) |-> StubEntry ]
    [] OTHER                  -> ledger.entries

(***************************************************************************)
(* The state.                                                              *)
(***************************************************************************)
Procs == { 1, 2 }

VARIABLES
  cache,         \* the application's cache: [DocIds -> DocPool]
  ledgerFile,    \* the tracking file on disk
  files,         \* the paths of the output files on disk
  pc,            \* where each sync process is
  state,         \* each process's load_cache() result
  tracking,      \* each process's in-memory ledger
  cursor,        \* each process's position in transcripts.items()
  counts,        \* each process's new_count, routed_count, updated_count
  clock,         \* runs started so far; datetime.now() is read from it
  edits,         \* cache changes so far
  faults,        \* injected faults so far
  crashedAt,     \* the operation at which each process's run aborted
  ledgerAtStart, \* history: the ledger file when each process's run began
  filesAtStart,  \* history: the output files when the scheduled run began
  prevRun,       \* history: whether the scheduled run before this one
                 \* completed, and whether it read the cache this one read
  orphans,       \* history: ids an aborted run wrote a file for, unledgered
  query,         \* the classifier's input
  answer         \* the classifier's result

vars ==
  << cache, ledgerFile, files, pc, state, tracking, cursor, counts, clock,
     edits, faults, crashedAt, ledgerAtStart, filesAtStart, prevRun,
     orphans, query, answer >>

runVars == << pc, state, tracking, cursor, counts, crashedAt,
              ledgerAtStart, filesAtStart, prevRun >>

classifyVars == << query, answer >>

NoCounts == [ new |-> 0, routed |-> 0, updated |-> 0 ]

AllAbsent == [ d \in DocIds |-> AbsentDoc ]

NoQuery == [ routes |-> << >>, title |-> << >>, people |-> << >> ]

InitRuns ==
  /\ pc = [ p \in Procs |-> "idle" ]
  /\ state = [ p \in Procs |-> AllAbsent ]
  /\ tracking = [ p \in Procs |-> EmptyMap ]
  /\ cursor = [ p \in Procs |-> 1 ]
  /\ counts = [ p \in Procs |-> NoCounts ]
  /\ crashedAt = [ p \in Procs |-> "" ]
  /\ ledgerAtStart = [ p \in Procs |-> NoLedger ]
  /\ filesAtStart = {}
  /\ prevRun = [ completed |-> FALSE, sameCache |-> FALSE ]
  /\ orphans = {}
  /\ clock = 0
  /\ edits = 0
  /\ faults = 0

\* Before the first run: any cache, no output file, and no ledger file or
\* the legacy array an earlier version of the tool left.
Init ==
  /\ cache \in [ DocIds -> DocPool ]
  /\ ledgerFile \in { NoLedger } \cup { LegacyLedger(l) : l \in LegacyLists }
  /\ files = {}
  /\ InitRuns
  /\ query = NoQuery
  /\ answer = None

(***************************************************************************)
(* sync_transcripts, one process p.                                        *)
(***************************************************************************)
\* the mutant of save_tracking that merges into the file, and lets an id the
\* file already holds keep the entry the file has for it
SaveTrackingMerged(dict) ==
  [ kind |-> "object", ids |-> << >>,
    entries |-> [ d \in DOMAIN dict \cup LedgerIds(ledgerFile) |->
                    IF d \in LedgerIds(ledgerFile)
                    THEN load_tracking(ledgerFile)[d]
                    ELSE dict[d] ] ]

\* what save_tracking(tracking) leaves in the ledger file
save_tracking(dict) ==
  [ kind |-> "object", ids |-> << >>, entries |-> dict ]

\* the process the scheduler starts
Main == 1

\* what the scheduled run found as it began, and how the one before it ended
RunHistory(p) ==
  IF p = Main
  THEN /\ filesAtStart' = files
       /\ prevRun' = [ completed |-> pc[p] = "done",
                        sameCache |-> state[p] = cache ]
  ELSE UNCHANGED << filesAtStart, prevRun >>

\* the ledger as load_tracking gave it to the run
Loaded(p) == load_tracking(ledgerAtStart[p])

Resting(p) == pc[p] \in { "idle", "done", "crashed" }

InLoop(p) == pc[p] = "loop" /\ cursor[p] <= Len(DocOrder)

CurId(p) == DocOrder[cursor[p]]

CurDoc(p) == state[p][CurId(p)]

ClientFolderOf == [ doc \in DocPool |-> match_client(doc.title, doc.people) ]

ClientFolder(doc) == ClientFolderOf[doc]

DestDir(doc) ==
  IF ClientFolder(doc) # None
  THEN get_client_call_notes_dir(ClientFolder(doc))
  ELSE INBOX_DIR

FilenameOf == [ doc \in DocPool |-> make_filename(get_date_prefix(doc), doc.title) ]

Filename(doc) == FilenameOf[doc]

Filepath(doc) == Path(DestDir(doc), Filename(doc))

\* datetime.now().isoformat()
Now == << "at", clock >>

\* tracked = tracking.get(doc_id), truthy
IsTracked(p) == CurId(p) \in DOMAIN tracking[p]

Tracked(p) == tracking[p][CurId(p)]

\* if not was_routed and client_folder and old_file
RerouteCond(tr, doc) ==
  ~tr.routed /\ ClientFolder(doc) # None /\ tr.file # << >>

RerouteOldPath(tr) == Path(INBOX_DIR, tr.file)

\* elif old_file and tracked.get('title') != title
RenameCond(tr, doc) ==
  ~RerouteCond(tr, doc) /\ tr.file # << >> /\ tr.title # doc.title

\* os.path.join(dest_dir if was_routed else INBOX_DIR, old_file)
RenameOldPath(tr, doc) ==
  Path(IF tr.routed THEN DestDir(doc) ELSE INBOX_DIR, tr.file)

NewEntry(now, doc) ==
  [ synced_at |-> now, routed |-> ClientFolder(doc) # None,
    client |-> ClientFolder(doc), file |-> Filename(doc), title |-> doc.title ]

\* the mutant of RerouteEntry that leaves the routed flag down
RerouteEntryUnrouted(now, doc) ==
  [ synced_at |-> now, routed |-> FALSE, client |-> ClientFolder(doc),
    file |-> Filename(doc), title |-> doc.title ]

RerouteEntry(now, doc) ==
  [ synced_at |-> now, routed |-> TRUE, client |-> ClientFolder(doc),
    file |-> Filename(doc), title |-> doc.title ]

RenameEntry(now, tr, doc) ==
  [ synced_at |-> now, routed |-> tr.routed,
    client |-> IF tr.routed THEN ClientFolder(doc) ELSE None,
    file |-> Filename(doc), title |-> doc.title ]

\* the mutant of FirstStepFiles that removes the old file first
FirstStepRemoves(fs, old_path, filepath) == fs \ { old_path }

\* In a reroute or a rename the new file is written first and the old one
\* removed second.
FirstStepFiles(fs, old_path, filepath) == fs \cup { filepath }

SecondStepFiles(fs, old_path, filepath) ==
  IF old_path # filepath THEN fs \ { old_path } ELSE fs

Advance(p) == cursor' = [ cursor EXCEPT ![p] = @ + 1 ]

Count(p, what) == counts' = [ counts EXCEPT ![p][what] = @ + 1 ]

\* os.makedirs, load_cache, load_tracking and the counters
Start(p) ==
  /\ Resting(p)
  /\ clock < MaxRuns
  /\ clock' = clock + 1
  /\ pc' = [ pc EXCEPT ![p] = "loop" ]
  /\ state' = [ state EXCEPT ![p] = cache ]
  /\ tracking' = [ tracking EXCEPT ![p] = load_tracking(ledgerFile) ]
  /\ ledgerAtStart' = [ ledgerAtStart EXCEPT ![p] = ledgerFile ]
  /\ cursor' = [ cursor EXCEPT ![p] = 1 ]
  /\ counts' = [ counts EXCEPT ![p] = NoCounts ]
  /\ crashedAt' = [ crashedAt EXCEPT ![p] = "" ]
  /\ RunHistory(p)
  /\ UNCHANGED << cache, ledgerFile, files, edits, faults, orphans >>
  /\ UNCHANGED classifyVars

\* if not entries: continue / if not is_meeting_done(doc, entries): continue
\* (an id transcripts does not hold is not iterated at all)
SkipTranscript(p) ==
  /\ InLoop(p)
  /\ ~Eligible(CurDoc(p))
  /\ Advance(p)
  /\ UNCHANGED << cache, ledgerFile, files, pc, state, tracking, counts, clock,
                  edits, faults, crashedAt, ledgerAtStart,
                  filesAtStart, prevRun, orphans >>
  /\ UNCHANGED classifyVars

\* the else branch: no ledger entry
NewTranscript(p) ==
  /\ InLoop(p)
  /\ Eligible(CurDoc(p))
  /\ ~IsTracked(p)
  /\ files' = files \cup { Filepath(CurDoc(p)) }
  /\ tracking' = [ tracking EXCEPT ![p] =
       [ d \in DOMAIN @ \cup { CurId(p) } |->
           IF d = CurId(p) THEN NewEntry(Now, CurDoc(p)) ELSE @[d] ] ]
  /\ Count(p, "new")
  /\ Advance(p)
  /\ UNCHANGED << cache, ledgerFile, pc, state, clock, edits, faults,
                  crashedAt, ledgerAtStart, filesAtStart, prevRun,
                  orphans >>
  /\ UNCHANGED classifyVars

\* the reroute branch up to the write of the new file
RerouteWrite(p) ==
  /\ InLoop(p)
  /\ Eligible(CurDoc(p))
  /\ IsTracked(p)
  /\ RerouteCond(Tracked(p), CurDoc(p))
  /\ RerouteOldPath(Tracked(p)) \in files
  /\ files' = FirstStepFiles(files, RerouteOldPath(Tracked(p)), Filepath(CurDoc(p)))
  /\ pc' = [ pc EXCEPT ![p] = "reroute_remove" ]
  /\ UNCHANGED << cache, ledgerFile, state, tracking, cursor, counts, clock,
                  edits, faults, crashedAt, ledgerAtStart,
                  filesAtStart, prevRun, orphans >>
  /\ UNCHANGED classifyVars

\* os.remove(old_path) and the new ledger entry of the reroute branch
RerouteRemove(p) ==
  /\ pc[p] = "reroute_remove"
  /\ RerouteOldPath(Tracked(p)) \in files
  /\ files' = SecondStepFiles(files, RerouteOldPath(Tracked(p)), Filepath(CurDoc(p)))
  /\ tracking' = [ tracking EXCEPT ![p][CurId(p)] = RerouteEntry(Now, CurDoc(p)) ]
  /\ Count(p, "routed")
  /\ Advance(p)
  /\ pc' = [ pc EXCEPT ![p] = "loop" ]
  /\ UNCHANGED << cache, ledgerFile, state, clock, edits, faults, crashedAt,
                  ledgerAtStart, filesAtStart, prevRun, orphans >>
  /\ UNCHANGED classifyVars

\* the rename branch up to the write of the new file
RenameWrite(p) ==
  /\ InLoop(p)
  /\ Eligible(CurDoc(p))
  /\ IsTracked(p)
  /\ RenameCond(Tracked(p), CurDoc(p))
  /\ RenameOldPath(Tracked(p), CurDoc(p)) \in files
  /\ files' = FirstStepFiles(files, RenameOldPath(Tracked(p), CurDoc(p)),
                             Filepath(CurDoc(p)))
  /\ pc' = [ pc EXCEPT ![p] = "rename_remove" ]
  /\ UNCHANGED << cache, ledgerFile, state, tracking, cursor, counts, clock,
                  edits, faults, crashedAt, ledgerAtStart,
                  filesAtStart, prevRun, orphans >>
  /\ UNCHANGED classifyVars

\* if old_path != filepath: os.remove(old_path), and the new ledger entry of
\* the rename branch
RenameRemove(p) ==
  /\ pc[p] = "rename_remove"
  /\ \/ RenameOldPath(Tracked(p), CurDoc(p)) \in files
     \/ RenameOldPath(Tracked(p), CurDoc(p)) = Filepath(CurDoc(p))
  /\ files' = SecondStepFiles(files, RenameOldPath(Tracked(p), CurDoc(p)),
                              Filepath(CurDoc(p)))
  /\ tracking' = [ tracking EXCEPT ![p][CurId(p)] =
                     RenameEntry(Now, Tracked(p), CurDoc(p)) ]
  /\ Count(p, "updated")
  /\ Advance(p)
  /\ pc' = [ pc EXCEPT ![p] = "loop" ]
  /\ UNCHANGED << cache, ledgerFile, state, clock, edits, faults, crashedAt,
                  ledgerAtStart, filesAtStart, prevRun, orphans >>
  /\ UNCHANGED classifyVars

\* a ledger entry and no branch that acts: the reroute test holds and the
\* inbox file is gone (the elif is then not tried), or the rename test fails,
\* or its old file is gone
NoChange(p) ==
  /\ InLoop(p)
  /\ Eligible(CurDoc(p))
  /\ IsTracked(p)
  /\ IF RerouteCond(Tracked(p), CurDoc(p))
     THEN RerouteOldPath(Tracked(p)) \notin files
     ELSE RenameCond(Tracked(p), CurDoc(p))
            => RenameOldPath(Tracked(p), CurDoc(p)) \notin files
  /\ Advance(p)
  /\ UNCHANGED << cache, ledgerFile, files, pc, state, tracking, counts, clock,
                  edits, faults, crashedAt, ledgerAtStart,
                  filesAtStart, prevRun, orphans >>
  /\ UNCHANGED classifyVars

\* save_tracking(tracking), after the loop
SaveTracking(p) ==
  /\ pc[p] = "loop"
  /\ cursor[p] > Len(DocOrder)
  /\ ledgerFile' = save_tracking(tracking[p])
  /\ pc' = [ pc EXCEPT ![p] = "done" ]
  /\ orphans' = orphans \ DOMAIN tracking[p]
  /\ UNCHANGED << cache, files, state, tracking, cursor, counts, clock, edits,
                  faults, crashedAt, ledgerAtStart, filesAtStart,
                  prevRun >>
  /\ UNCHANGED classifyVars

\* the mutant of Abort that saves the ledger on the way out
AbortSaving(p, at) ==
  /\ pc' = [ pc EXCEPT ![p] = "crashed" ]
  /\ crashedAt' = [ crashedAt EXCEPT ![p] = at ]
  /\ orphans' = orphans \cup (DOMAIN tracking[p] \ DOMAIN Loaded(p))
  /\ ledgerFile' = save_tracking(tracking[p])
  /\ UNCHANGED << cache, files, state, tracking, cursor, counts,
                  edits, ledgerAtStart, filesAtStart, prevRun >>
  /\ UNCHANGED classifyVars

\* An unhandled exception ends the run: nothing is saved.
Abort(p, at) ==
  /\ pc' = [ pc EXCEPT ![p] = "crashed" ]
  /\ crashedAt' = [ crashedAt EXCEPT ![p] = at ]
  /\ orphans' = orphans \cup (DOMAIN tracking[p] \ DOMAIN Loaded(p))
  /\ UNCHANGED << cache, ledgerFile, files, state, tracking, cursor, counts,
                  edits, ledgerAtStart, filesAtStart, prevRun >>
  /\ UNCHANGED classifyVars

\* load_cache raises (the cache file is missing or malformed)
LoadFault(p) ==
  /\ Resting(p)
  /\ clock < MaxRuns
  /\ faults < MaxFaults
  /\ clock' = clock + 1
  /\ faults' = faults + 1
  /\ pc' = [ pc EXCEPT ![p] = "crashed" ]
  /\ crashedAt' = [ crashedAt EXCEPT ![p] = "load_cache" ]
  /\ ledgerAtStart' = [ ledgerAtStart EXCEPT ![p] = ledgerFile ]
  /\ RunHistory(p)
  /\ UNCHANGED << cache, ledgerFile, files, state, tracking, cursor, counts,
                  edits, orphans >>
  /\ UNCHANGED classifyVars

\* open(filepath, 'w') or f.write raises in the branch the transcript takes
WriteFault(p) ==
  /\ InLoop(p)
  /\ Eligible(CurDoc(p))
  /\ faults < MaxFaults
  /\ IF IsTracked(p)
     THEN IF RerouteCond(Tracked(p), CurDoc(p))
          THEN RerouteOldPath(Tracked(p)) \in files
          ELSE /\ RenameCond(Tracked(p), CurDoc(p))
               /\ RenameOldPath(Tracked(p), CurDoc(p)) \in files
     ELSE TRUE
  /\ faults' = faults + 1
  /\ clock' = clock
  /\ Abort(p, "write")

\* os.remove(old_path) raises
RemoveFault(p) ==
  /\ IF pc[p] = "rename_remove"
     THEN RenameOldPath(Tracked(p), CurDoc(p)) # Filepath(CurDoc(p))
     ELSE pc[p] = "reroute_remove"
  /\ faults < MaxFaults
  /\ faults' = faults + 1
  /\ clock' = clock
  /\ Abort(p, pc[p])

\* os.remove(old_path) raises FileNotFoundError: an overlapping run removed
\* the old file after this run saw it
RemoveMissing(p) ==
  /\ IF pc[p] = "rename_remove"
     THEN /\ RenameOldPath(Tracked(p), CurDoc(p)) # Filepath(CurDoc(p))
          /\ RenameOldPath(Tracked(p), CurDoc(p)) \notin files
     ELSE /\ pc[p] = "reroute_remove"
          /\ RerouteOldPath(Tracked(p)) \notin files
  /\ UNCHANGED << faults, clock >>
  /\ Abort(p, pc[p])

(***************************************************************************)
(* The environment: the note-taking application rewrites its cache.        *)
(***************************************************************************)
EditCache ==
  /\ edits < MaxEdits
  /\ \E d \in DocIds, doc \in DocPool :
       /\ doc # cache[d]
       /\ cache' = [ cache EXCEPT ![d] = doc ]
  /\ edits' = edits + 1
  /\ UNCHANGED << ledgerFile, files, clock, faults, orphans >>
  /\ UNCHANGED runVars
  /\ UNCHANGED classifyVars

(***************************************************************************)
(* Runs one after the other, as the scheduler is meant to start them: a    *)
(* single process.  A run reads the cache once, in load_cache, so a cache  *)
(* change made while it runs is seen exactly as one made after it: the     *)
(* cache changes between runs, and only while a run is still to come.      *)
(***************************************************************************)

Next ==
  \/ Start(Main)
  \/ SkipTranscript(Main)
  \/ NewTranscript(Main)
  \/ RerouteWrite(Main)
  \/ RerouteRemove(Main)
  \/ RenameWrite(Main)
  \/ RenameRemove(Main)
  \/ NoChange(Main)
  \/ SaveTracking(Main)
  \/ LoadFault(Main)
  \/ WriteFault(Main)
  \/ RemoveFault(Main)
  \/ (Resting(Main) /\ clock < MaxRuns /\ EditCache)

Spec == Init /\ [][Next]_vars

(***************************************************************************)
(* Overlapping runs: nothing locks the ledger, so a second process may     *)
(* start one run while the first is anywhere in its own.  os.remove then   *)
(* can find the old file already removed by the other process.             *)
(***************************************************************************)
NextOverlap ==
  \/ Start(1)
  \/ (pc[2] = "idle" /\ ~Resting(1) /\ Start(2))
  \/ \E p \in Procs :
       \/ SkipTranscript(p)
       \/ NewTranscript(p)
       \/ RerouteWrite(p)
       \/ RerouteRemove(p)
       \/ RenameWrite(p)
       \/ RenameRemove(p)
       \/ NoChange(p)
       \/ SaveTracking(p)
       \/ RemoveMissing(p)
  \/ ((\A p \in Procs : Resting(p)) /\ clock < MaxRuns /\ EditCache)

InitOverlap == Init /\ ledgerFile = NoLedger

SpecOverlap == InitOverlap /\ [][NextOverlap]_vars

(***************************************************************************)
(* The classifier on its own: a routing table, a title and a people title  *)
(* are drawn, and match_client's scan is applied to them.                  *)
(***************************************************************************)
Pending == "?"

ClassifyChars == { "a", "b", "B", "x", " " }

ShortTitles ==
  UNION { [ 1 .. n -> ClassifyChars ] : n \in 0 .. MaxTitleLen }

ClassifyTitles == ShortTitles \cup { TAcme, TAcmeBang, TWeekly, TStandup }

ClassifyPeople == { << >>, << "A" >>, << "b" >>, TJane }

InitClassify ==
  /\ cache = AllAbsent
  /\ ledgerFile = NoLedger
  /\ files = {}
  /\ InitRuns
  /\ query \in [ routes : { CLIENT_ROUTES, PrecedenceRoutes },
                 title : ClassifyTitles, people : ClassifyPeople ]
  /\ answer = Pending

Classify ==
  /\ answer = Pending
  /\ answer' = MatchClientIn(query.routes, query.title, query.people)
  /\ UNCHANGED << cache, ledgerFile, files, clock, edits, faults, orphans,
                  query >>
  /\ UNCHANGED runVars

NextClassify == Classify

SpecClassify == InitClassify /\ [][NextClassify]_vars

(***************************************************************************)
(* What the claims speak of, stated without the model's own operators for  *)
(* the scan, the completion filter and the branch tests.                   *)
(***************************************************************************)
\* the text the keywords are looked for in
SaidText(title, people) ==
  IF people = << >> THEN Lower(title) ELSE Lower(title) \o << " " >> \o Lower(people)

\* entry i of the table has a keyword occurring in the text
SaidEntryMatches(routes, i, text) ==
  \E k \in DOMAIN routes[i].keywords :
    \E at \in 1 .. Len(text) :
      /\ at + Len(routes[i].keywords[k]) - 1 <= Len(text)
      /\ \A c \in DOMAIN routes[i].keywords[k] :
           text[at + c - 1] = routes[i].keywords[k][c]

\* the folder of the first entry, in configured order, that matches
SaidFolder(routes, title, people) ==
  LET text == SaidText(title, people)
      hits == { i \in DOMAIN routes : SaidEntryMatches(routes, i, text) }
  IN  IF hits = {} THEN None
      ELSE routes[CHOOSE i \in hits : \A j \in hits : i <= j].folder

\* the text holds the letter, in either case
SaidHasLetter(title, people, low, up) ==
  \/ \E i \in DOMAIN title : title[i] \in { low, up }
  \/ \E i \in DOMAIN people : people[i] \in { low, up }

\* a transcript the run does not skip
SaidEligible(doc) ==
  /\ doc.present
  /\ doc.segments > 0
  /\ doc.meeting_end_count >= 1
  /\ doc.title # << >>
  /\ doc.words >= 50

\* the directory a ledger entry's routed and client fields imply
SaidDir(entry) ==
  IF entry.routed THEN << "clients", entry.client, "call-notes" >> ELSE << "inbox" >>

\* C6: match_client returns the folder of the first routing entry, in
\* configured order, one of whose keywords occurs in the lower-cased title
\* plus people title, and none when no entry matches; with the entries
\* (["a"], F1), (["a", "b"], F2) a text holding "a" yields F1 even when it
\* holds "b" too, and a text holding "b" and no "a" yields F2.
C6_ClassifierPrecedence ==
  answer # Pending =>
    /\ answer = SaidFolder(query.routes, query.title, query.people)
    /\ query.routes = PrecedenceRoutes =>
         answer = IF SaidHasLetter(query.title, query.people, "a", "A") THEN "F1"
                  ELSE IF SaidHasLetter(query.title, query.people, "b", "B") THEN "F2"
                  ELSE None

\* a text holding both "a" and "b" was classified, and went to F1
C6_Witness ==
  /\ query.routes = PrecedenceRoutes
  /\ answer = "F1"
  /\ SaidHasLetter(query.title, query.people, "b", "B")
  /\ Len(query.title) >= 2

\* the process has finished the transition of the transcript it was on
Finished(p) == pc'[p] = "loop" /\ cursor'[p] = cursor[p] + 1

\* the run is at a transcript it does not skip, and the ledger has an entry
AtTracked(p) ==
  /\ InLoop(p)
  /\ SaidEligible(CurDoc(p))
  /\ CurId(p) \in DOMAIN tracking[p]

\* C1: when sync_transcripts runs to completion twice in a row on the same
\* cache, the second run counts no new, routed or updated transcript, writes
\* and deletes no output file and changes no ledger entry.
C1_Idempotence ==
  (pc[Main] = "done" /\ prevRun.completed /\ prevRun.sameCache) =>
    /\ counts[Main] = NoCounts
    /\ files = filesAtStart
    /\ ledgerFile = ledgerAtStart[Main]

\* the reroute case: an unrouted entry whose file is in the inbox, and a
\* title or people title that matches a routing keyword
RerouteCase(p) ==
  /\ AtTracked(p)
  /\ ~Tracked(p).routed
  /\ Tracked(p).file # << >>
  /\ << << "inbox" >>, Tracked(p).file >> \in files
  /\ SaidFolder(CLIENT_ROUTES, CurDoc(p).title, CurDoc(p).people) # None

\* C2: reaching a transcript in the reroute case, the run writes the file into
\* the matched client's call-notes folder, deletes the old inbox file, and
\* sets the entry to routed, the matched folder, and the current filename and
\* title (a fault aside, which aborts the run).
C2_Reroute ==
  [][ LET doc == CurDoc(Main)
          folder == SaidFolder(CLIENT_ROUTES, doc.title, doc.people)
          newPath == << << "clients", folder, "call-notes" >>,
                        make_filename(get_date_prefix(doc), doc.title) >>
      IN  /\ (RerouteCase(Main) /\ pc'[Main] # "crashed") =>
                /\ pc'[Main] = "reroute_remove"
                /\ newPath \in files'
          /\ (pc[Main] = "reroute_remove" /\ Finished(Main)) =>
                /\ newPath \in files'
                /\ << << "inbox" >>, Tracked(Main).file >> \notin files'
                /\ tracking'[Main][CurId(Main)].routed = TRUE
                /\ tracking'[Main][CurId(Main)].client = folder
                /\ tracking'[Main][CurId(Main)].file = newPath[2]
                /\ tracking'[Main][CurId(Main)].title = doc.title
                /\ counts'[Main].routed = counts[Main].routed + 1
    ]_vars

\* a run has rerouted a transcript: its loaded entry was unrouted, its saved
\* entry is routed, the inbox file is gone and the client's file is there
C2_Witness ==
  /\ pc[Main] = "done"
  /\ counts[Main].routed = 1
  /\ \E d \in DOMAIN Loaded(Main) :
       /\ ~Loaded(Main)[d].routed
       /\ Loaded(Main)[d].file # << >>
       /\ << << "inbox" >>, Loaded(Main)[d].file >> \notin files
       /\ ledgerFile.entries[d].routed
       /\ ledgerFile.entries[d].client = "Acme-Corp"
       /\ << << "clients", "Acme-Corp", "call-notes" >>,
             ledgerFile.entries[d].file >> \in files

\* the rename case: an entry whose file is where the entry says it is, and a
\* stored title that is not the current one
RenameCase(p) ==
  /\ AtTracked(p)
  /\ Tracked(p).file # << >>
  /\ << SaidDir(Tracked(p)), Tracked(p).file >> \in files
  /\ Tracked(p).title # CurDoc(p).title

\* C3: reaching a transcript in the rename case, the run writes a file under
\* the new filename, removes the old file when its path differs, and sets the
\* entry's title to the current one; a routed entry keeps its client.
C3_Rename ==
  [][ LET doc == CurDoc(Main)
          newName == make_filename(get_date_prefix(doc), doc.title)
          old == Tracked(Main)
      IN  /\ (RenameCase(Main) /\ pc'[Main] # "crashed") =>
                /\ pc'[Main] \in { "reroute_remove", "rename_remove" }
                /\ \E path \in files' : path[2] = newName
          /\ (pc[Main] \in { "reroute_remove", "rename_remove" } /\ Finished(Main)) =>
                /\ \E path \in files' : path[2] = newName
                /\ \A path \in files \ files' : path[2] = old.file
                /\ tracking'[Main][CurId(Main)].title = doc.title
                /\ old.routed => tracking'[Main][CurId(Main)].client = old.client
    ]_vars

\* C4: load_tracking maps each id of a legacy array to the stub entry, and
\* after one completed run the entry of every such id with an eligible
\* transcript in the cache is fully populated from the run.
C4_LegacyUpgrade ==
  (pc[Main] = "done" /\ ledgerAtStart[Main].kind = "list") =>
    \A d \in Range(ledgerAtStart[Main].ids) :
      /\ Loaded(Main)[d] =
           [ synced_at |-> << "unknown" >>, routed |-> FALSE, client |-> None,
             file |-> << >>, title |-> << >> ]
      /\ SaidEligible(state[Main][d]) =>
           /\ ledgerFile.entries[d].synced_at # << "unknown" >>
           /\ ledgerFile.entries[d].file # << >>
           /\ ledgerFile.entries[d].title = state[Main][d].title

\* C5: whenever the run writes a ledger entry, the entry's file is on disk at
\* that moment in the directory its routed and client fields imply.
C5_FileWhereLedgerSays ==
  [][ \A d \in DocIds :
        ( /\ ~Resting(Main)
          /\ d \in DOMAIN tracking'[Main]
          /\ d \in DOMAIN tracking[Main] =>
               tracking'[Main][d] # tracking[Main][d] ) =>
          << SaidDir(tracking'[Main][d]), tracking'[Main][d].file >> \in files'
    ]_vars

\* C7: a completed run saves the entry of every id whose transcript it
\* skipped, or that the cache no longer holds, exactly as it was loaded; it
\* writes and deletes no file when it skips a transcript; and no step takes an
\* id out of the ledger file.
C7_StaleEntriesKept ==
  /\ [] ( pc[Main] = "done" =>
            \A d \in DOMAIN Loaded(Main) :
              ~SaidEligible(state[Main][d]) =>
                /\ d \in DOMAIN ledgerFile.entries
                /\ ledgerFile.entries[d] = Loaded(Main)[d] )
  /\ [][ /\ (InLoop(Main) /\ ~SaidEligible(CurDoc(Main))) =>
              (files' = files /\ tracking' = tracking)
         /\ LedgerIds(ledgerFile) \subseteq LedgerIds(ledgerFile')
       ]_vars

\* a completed run kept the populated entry of a transcript it skipped, whose
\* file it left alone
C7_Witness ==
  /\ pc[Main] = "done"
  /\ counts[Main] # NoCounts
  /\ \E d \in DOMAIN Loaded(Main) :
       /\ ~SaidEligible(state[Main][d])
       /\ Loaded(Main)[d].file # << >>
       /\ ledgerFile.entries[d] = Loaded(Main)[d]
       /\ << SaidDir(Loaded(Main)[d]), Loaded(Main)[d].file >> \in files

\* C8: the ledger file changes only in the one save after the loop, so a run
\* that aborts leaves it as it was when the run began and leaves the output
\* files as the run had made them; the next run takes a transcript an aborted
\* run wrote a file for, and that has no ledger entry, as new and writes it
\* again.
C8_FaultLosesLedgerProgress ==
  /\ [] ( pc[Main] = "crashed" => ledgerFile = ledgerAtStart[Main] )
  /\ [][ /\ ledgerFile' # ledgerFile =>
              /\ pc[Main] = "loop"
              /\ cursor[Main] > Len(DocOrder)
              /\ pc'[Main] = "done"
         /\ (pc[Main] # "crashed" /\ pc'[Main] = "crashed") => files' = files
         /\ ( /\ InLoop(Main)
              /\ CurId(Main) \in orphans
              /\ SaidEligible(CurDoc(Main))
              /\ pc'[Main] # "crashed" ) =>
              /\ CurId(Main) \notin DOMAIN tracking[Main]
              /\ counts'[Main].new = counts[Main].new + 1
              /\ \E path \in files' :
                   path[2] = make_filename(get_date_prefix(CurDoc(Main)),
                                           CurDoc(Main).title)
              /\ CurId(Main) \in DOMAIN tracking'[Main]
       ]_vars

\* the run after an aborted one has written again, as new, a transcript the
\* aborted run had written a file for
C8_Witness ==
  /\ pc[Main] = "loop"
  /\ ~prevRun.completed
  /\ ledgerAtStart[Main] = NoLedger
  /\ filesAtStart # {}
  /\ \E d \in orphans :
       /\ d \in DOMAIN tracking[Main]
       /\ d \notin DOMAIN Loaded(Main)
       /\ counts[Main].new >= 1

\* the two paths of the transition a process is in the middle of, or was in
\* the middle of when os.remove failed
MidOld(p) ==
  << IF pc[p] = "reroute_remove" \/ crashedAt[p] = "reroute_remove"
        \/ ~Tracked(p).routed
     THEN << "inbox" >>
     ELSE DestDir(CurDoc(p)),
     Tracked(p).file >>

MidNew(p) == << DestDir(CurDoc(p)), Filename(CurDoc(p)) >>

InMid(p) ==
  \/ pc[p] \in { "reroute_remove", "rename_remove" }
  \/ pc[p] = "crashed" /\ crashedAt[p] \in { "reroute_remove", "rename_remove" }

\* C10: in a reroute and in a rename the new file is written before the old
\* one is removed: between the two steps, and after a crash between them, the
\* transcript's file is at both the old and the new path; a write that fails
\* leaves the old file in place.
C10_WriteBeforeDelete ==
  /\ InMid(Main) => (MidOld(Main) \in files /\ MidNew(Main) \in files)
  /\ ( /\ pc[Main] = "crashed"
       /\ crashedAt[Main] = "write"
       /\ CurId(Main) \in DOMAIN tracking[Main] ) =>
       \E path \in files : path[2] = Tracked(Main).file

\* a run crashed between the write and the remove of a reroute, and the file
\* is in the inbox and in the client's folder
C10_Witness ==
  /\ pc[Main] = "crashed"
  /\ crashedAt[Main] = "reroute_remove"
  /\ MidOld(Main) # MidNew(Main)
  /\ MidOld(Main) \in files
  /\ MidNew(Main) \in files

\* C9: with overlapping runs every write of the ledger file is the whole
\* in-memory ledger of the process that saves, whatever the file held: the
\* last writer wins.
C9_LastWriterWins ==
  [][ ledgerFile' # ledgerFile =>
        \E p \in Procs :
          /\ pc[p] = "loop"
          /\ pc'[p] = "done"
          /\ ledgerFile'.kind = "object"
          /\ ledgerFile'.entries = tracking[p]
    ]_vars

\* two runs on the same cache and the same loaded ledger have both saved; the
\* file is the ledger of q, the last to save, which drops p's reroute: the
\* entry says unrouted with an inbox file, and the file is in the client's
\* folder and not in the inbox
C9_Witness ==
  \E p, q \in Procs, d \in DocIds :
    /\ p # q
    /\ pc[p] = "done" /\ pc[q] = "done"
    /\ state[p] = state[q]
    /\ Loaded(p) = Loaded(q)
    /\ d \in DOMAIN Loaded(p)
    /\ ledgerFile.entries = tracking[q]
    /\ tracking[p][d].routed
    /\ counts[p].routed = 1
    /\ ~ledgerFile.entries[d].routed
    /\ ledgerFile.entries[d].file # << >>
    /\ << << "inbox" >>, ledgerFile.entries[d].file >> \notin files
    /\ << << "clients", tracking[p][d].client, "call-notes" >>,
          tracking[p][d].file >> \in files

====
